---- MODULE Spec2Model ----
(***************************************************************************)
(* Voice agent webhooks: the Twilio routes (/voice/inbound,                *)
(* /voice/transcribe), the vendor-agnostic route (/vapi/events), the       *)
(* Chatwoot call registry (_call_map) and the order / reply helpers.       *)
(* Texts are TLA+ strings; substring tests, lower-casing, stripping and    *)
(* the regular expressions of the source are computed character by         *)
(* character.                                                              *)
(***************************************************************************)
EXTENDS Integers, Sequences, FiniteSets, TLC

(***************************************************************************)
(* Text primitives (Python str / re semantics)                             *)
(***************************************************************************)
UpperChars == "ABCDEFGHIJKLMNOPQRSTUVWXYZ"
LowerChars == "abcdefghijklmnopqrstuvwxyz"
DigitChars == "0123456789"

\* the character of t at position i, "" outside the text
At(t, i) == IF i >= 1 /\ i <= Len(t) THEN SubSeq(t, i, i) ELSE ""

\* the characters of the text cs
CharsOf(cs) == {SubSeq(cs, i, i) : i \in 1..Len(cs)}

Digits == CharsOf(DigitChars)
Letters == CharsOf(UpperChars) \cup CharsOf(LowerChars)

IsDigit(c) == c \in Digits
IsSpace(c) == c = " "
\* \w of the re module
IsWordChar(c) == c \in Letters \/ c \in Digits \/ c = "_"
\* [A-Za-z0-9\-]
IsIdChar(c) == c \in Letters \/ c \in Digits \/ c = "-"

\* str.lower() of one character
LowerChar ==
    [c \in {SubSeq(UpperChars, i, i) : i \in 1..Len(UpperChars)} |->
        LET i == CHOOSE j \in 1..Len(UpperChars) : SubSeq(UpperChars, j, j) = c
        IN  SubSeq(LowerChars, i, i)]

\* str.lower()
RECURSIVE lower(_)
lower(t) ==
    IF t = "" THEN ""
    ELSE LET c == SubSeq(t, 1, 1)
         IN  (IF c \in DOMAIN LowerChar THEN LowerChar[c] ELSE c) \o lower(SubSeq(t, 2, Len(t)))

\* str.strip()
RECURSIVE lstrip(_)
lstrip(t) == IF t # "" /\ IsSpace(At(t, 1)) THEN lstrip(SubSeq(t, 2, Len(t))) ELSE t
RECURSIVE rstrip(_)
rstrip(t) == IF t # "" /\ IsSpace(At(t, Len(t))) THEN rstrip(SubSeq(t, 1, Len(t) - 1)) ELSE t
strip(t) == rstrip(lstrip(t))

\* p occurs in t at position i
MatchAt(t, p, i) == i >= 1 /\ i + Len(p) - 1 <= Len(t) /\ SubSeq(t, i, i + Len(p) - 1) = p

\* Python `p in t`
Contains(t, p) == \E i \in 1..(Len(t) - Len(p) + 1) : MatchAt(t, p, i)

\* re.search(rf"\b{w}\b", t) for a word w of word characters
SearchWord(w, t) ==
    \E i \in 1..(Len(t) - Len(w) + 1) :
        /\ MatchAt(t, w, i)
        /\ ~IsWordChar(At(t, i - 1))
        /\ ~IsWordChar(At(t, i + Len(w)))

\* end of the maximal run of characters satisfying a class, starting at i
RECURSIVE SkipSpaces(_, _)
SkipSpaces(t, i) == IF IsSpace(At(t, i)) THEN SkipSpaces(t, i + 1) ELSE i
RECURSIVE DigitRunEnd(_, _)
DigitRunEnd(t, i) == IF IsDigit(At(t, i)) THEN DigitRunEnd(t, i + 1) ELSE i
RECURSIVE IdRunEnd(_, _)
IdRunEnd(t, i) == IF IsIdChar(At(t, i)) THEN IdRunEnd(t, i + 1) ELSE i

\* least element of a non-empty set of positions
Least(S) == CHOOSE i \in S : \A j \in S : i <= j

(***************************************************************************)
(* Intent detection (webhooks.py)                                          *)
(***************************************************************************)
escalation_phrases ==
    {"talk to agent", "talk to a human", "talk to human", "human",
     "real person", "customer support", "representative", "agent"}

stop_multi == {"that's all", "thats all", "nothing else", "that's it", "thats it", "goodbye"}

stop_single == {"no", "bye", "nope"}

\* variant: escalation phrases matched as whole words only (sensitivity of C9)
EscalationMatch_whole_words(t_lower) ==
    \E p \in escalation_phrases :
        \E i \in 1..(Len(t_lower) - Len(p) + 1) :
            /\ MatchAt(t_lower, p, i)
            /\ ~IsWordChar(At(t_lower, i - 1))
            /\ ~IsWordChar(At(t_lower, i + Len(p)))

\* any(p in t_lower for p in escalation_phrases)
EscalationMatch(t_lower) == \E p \in escalation_phrases : Contains(t_lower, p)

\* any(phrase in t_lower ...) or any(re.search(rf"\b{w}\b", t_lower) ...)
StopMatch(t_lower) ==
    \/ \E phrase \in stop_multi : Contains(t_lower, phrase)
    \/ \E w \in stop_single : SearchWord(w, t_lower)

(***************************************************************************)
(* Order helpers (handlers/ai.py, integrations/shopify.py)                 *)
(***************************************************************************)
order_phrases ==
    {"order status", "where is my order", "where's my order", "track my order", "order status for"}

\* the digits / id characters of t from position b on
DigitsFrom(t, b) == SubSeq(t, b, DigitRunEnd(t, b) - 1)
IdFrom(t, b) == SubSeq(t, b, IdRunEnd(t, b) - 1)

\* re.search(r"#\s?(\d+)", transcript): positions of a matching "#"
HashMatches(t) ==
    {i \in 1..Len(t) : /\ At(t, i) = "#"
                       /\ \/ IsDigit(At(t, i + 1))
                          \/ IsSpace(At(t, i + 1)) /\ IsDigit(At(t, i + 2))}

HashGroupAt(t, i) == DigitsFrom(t, IF IsDigit(At(t, i + 1)) THEN i + 1 ELSE i + 2)

HashGroup(t) == HashGroupAt(t, Least(HashMatches(t)))

\* the alternatives of (?: number| no\.?| #)? in the order the engine tries them
OrderAlts == <<" number", " no.", " no", " #", "">>

\* [:#]?\s*([A-Za-z0-9\-]+) from position q, which follows the first \s*:
\* start of the group, 0 when there is no match
IdStartAfterSpaces(t, q) ==
    IF At(t, q) \in {":", "#"}
    THEN (IF IsIdChar(At(t, SkipSpaces(t, q + 1))) THEN SkipSpaces(t, q + 1) ELSE 0)
    ELSE (IF IsIdChar(At(t, q)) THEN q ELSE 0)

\* \s*[:#]?\s*([A-Za-z0-9\-]+) from position p: start of the group, 0 when no match
IdStart(t, p) == IdStartAfterSpaces(t, SkipSpaces(t, p))

\* alternatives that lead to a match when "order" is matched at position i
\* (tl is the lower-cased text: the search ignores case)
AltsAt(t, tl, i) ==
    {k \in 1..Len(OrderAlts) :
        /\ MatchAt(tl, OrderAlts[k], i + 5)
        /\ IdStart(t, i + 5 + Len(OrderAlts[k])) # 0}

\* re.search(r"order(?: number| no\.?| #)?\s*[:#]?\s*([A-Za-z0-9\-]+)", ..., re.IGNORECASE)
OrderWordMatches(t, tl) ==
    {i \in 1..Len(t) : MatchAt(tl, "order", i) /\ AltsAt(t, tl, i) # {}}

OrderWordGroupAt(t, tl, i) ==
    IdFrom(t, IdStart(t, i + 5 + Len(OrderAlts[Least(AltsAt(t, tl, i))])))

OrderWordGroup(t, tl) == OrderWordGroupAt(t, tl, Least(OrderWordMatches(t, tl)))

\* re.search(r"\b(\d{5,})\b", transcript)
LongDigitMatches(t) ==
    {i \in 1..Len(t) : /\ IsDigit(At(t, i))
                       /\ ~IsWordChar(At(t, i - 1))
                       /\ DigitRunEnd(t, i) - i >= 5
                       /\ ~IsWordChar(At(t, DigitRunEnd(t, i)))}

LongDigitGroup(t) == DigitsFrom(t, Least(LongDigitMatches(t)))

ExtractOrderIdFrom(t, tl) ==
    IF HashMatches(t) # {} THEN HashGroup(t)
    ELSE IF OrderWordMatches(t, tl) # {} THEN OrderWordGroup(t, tl)
    ELSE IF LongDigitMatches(t) # {} THEN LongDigitGroup(t)
    ELSE ""

\* the order id generate_order_reply extracts; "" is None
ExtractOrderId(t) == ExtractOrderIdFrom(t, lower(t))

\* str.isdigit()
isdigit(t) == t # "" /\ \A i \in 1..Len(t) : IsDigit(At(t, i))

\* an order as the shop returns it; "" is a missing (None) field, fulfillments
\* is the list of the tracking_numbers lists
Order4521 ==
    [id |-> "900", order_number |-> "4521", name |-> "#4521", financial_status |-> "paid",
     fulfillment_status |-> "fulfilled", fulfillments |-> << <<"1Z999">> >>]

OrderDraft ==
    [id |-> "901", order_number |-> "", name |-> "", financial_status |-> "pending",
     fulfillment_status |-> "", fulfillments |-> << <<>>, <<"T1", "T2">> >>]

NoOrder ==
    [id |-> "", order_number |-> "", name |-> "", financial_status |-> "",
     fulfillment_status |-> "", fulfillments |-> <<>>]

Orders == {Order4521, OrderDraft}

\* _extract_fields of a non-empty order
_extract_fields(order) ==
    [id |-> order.id,
     order_number |-> IF order.order_number # "" THEN order.order_number ELSE order.name,
     financial_status |-> order.financial_status,
     fulfillment_status |-> order.fulfillment_status,
     fulfillments |-> order.fulfillments]

\* what lookup_order returns: None ("none"), {} ("empty") or the extracted
\* fields ("order"), and the number of GETs it issued
Looked(kind, order, requests) ==
    [result |-> [kind |-> kind, order |-> order], requests |-> requests]

\* variant: a failed search by name is sent a second time (sensitivity of C16)
lookup_order_search_retries(numeric, first, shop) ==
    IF shop.r[2] = "hit" THEN Looked("order", _extract_fields(shop.order), first + 1)
    ELSE IF numeric /\ shop.r[3] = "hit"
    THEN Looked("order", _extract_fields(shop.order),
                first + (IF shop.r[2] = "error" THEN 3 ELSE 2))
    ELSE Looked("none", NoOrder,
                first + (IF numeric THEN 2 ELSE 1) + (IF shop.r[2] = "error" THEN 1 ELSE 0))

\* One answer of the shop to a GET: "error" is an exception or a non-200
\* status, "miss" a 200 without an order, "hit" a 200 carrying shop.order.
\* The searches by name and by order_number that follow the lookup by id:
lookup_order_search(numeric, first, shop) ==
    IF shop.r[2] = "hit" THEN Looked("order", _extract_fields(shop.order), first + 1)
    ELSE IF numeric /\ shop.r[3] = "hit"
    THEN Looked("order", _extract_fields(shop.order), first + 2)
    ELSE Looked("none", NoOrder, first + (IF numeric THEN 2 ELSE 1))

lookup_order_by(numeric, configured, shop) ==
    IF ~configured THEN Looked("none", NoOrder, 0)
    ELSE IF numeric /\ shop.r[1] = "hit" THEN Looked("order", _extract_fields(shop.order), 1)
    ELSE IF numeric /\ shop.r[1] = "miss" THEN Looked("empty", NoOrder, 1)
    ELSE lookup_order_search(numeric, IF numeric THEN 1 ELSE 0, shop)

lookup_order(order_identifier, configured, shop) ==
    lookup_order_by(isdigit(order_identifier), configured, shop)

\* ", ".join(xs)
RECURSIVE Join(_)
Join(xs) ==
    IF xs = <<>> THEN ""
    ELSE IF Len(xs) = 1 THEN xs[1]
    ELSE xs[1] \o ", " \o Join(Tail(xs))

\* the tracking numbers of all fulfillments, in order
RECURSIVE Tracking(_)
Tracking(fulfillments) ==
    IF fulfillments = <<>> THEN <<>> ELSE Head(fulfillments) \o Tracking(Tail(fulfillments))

\* the dash of the source texts is written "-"
AskOrderNumber == "I can check that for you - could you please provide your order number?"
OrderNotFound == "I couldn't find that order in our system - could you double-check the order number?"

\* order_info: None ("none"), {} ("empty"), found False ("not_found"), found True ("found")
OrderInfo(kind, searched_order, order) ==
    [kind |-> kind, searched_order |-> searched_order, order |-> order]

\* what generate_order_reply returns, and the number of GETs sent to the shop
OrderReply(reply, order_info, requests) ==
    [reply |-> reply, order_info |-> order_info, requests |-> requests]

\* variant: the tracking numbers are left out of the reply (sensitivity of C13)
OrderReplyText_without_tracking(order, tracking) ==
    ("I found order " \o (IF order.order_number # "" THEN order.order_number ELSE order.id)
        \o ".")
    \o (IF order.financial_status # "" THEN " Payment status: " \o order.financial_status
        ELSE "")
    \o (IF order.fulfillment_status # "" THEN " Fulfillment: " \o order.fulfillment_status
        ELSE "")

\* " ".join(parts) for a found order
OrderReplyText(order, tracking) ==
    ("I found order " \o (IF order.order_number # "" THEN order.order_number ELSE order.id)
        \o ".")
    \o (IF order.financial_status # "" THEN " Payment status: " \o order.financial_status
        ELSE "")
    \o (IF order.fulfillment_status # "" THEN " Fulfillment: " \o order.fulfillment_status
        ELSE "")
    \o (IF tracking # <<>> THEN " Tracking: " \o Join(tracking) ELSE "")

\* variant: a failed lookup gives no order reply, so that the turn falls
\* through to open-ended reply generation (sensitivity of C12)
order_reply_after_lookup_falls_through(order_id, lk) ==
    IF lk.result.kind # "order"
    THEN OrderReply("", OrderInfo("none", "", NoOrder), lk.requests)
    ELSE OrderReply(OrderReplyText(lk.result.order, Tracking(lk.result.order.fulfillments)),
                    OrderInfo("found", order_id, lk.result.order), lk.requests)

\* generate_order_reply once the lookup has returned lk
order_reply_after_lookup(order_id, lk) ==
    IF lk.result.kind # "order"
    THEN OrderReply(OrderNotFound, OrderInfo("not_found", order_id, NoOrder), lk.requests)
    ELSE OrderReply(OrderReplyText(lk.result.order, Tracking(lk.result.order.fulfillments)),
                    OrderInfo("found", order_id, lk.result.order), lk.requests)

\* generate_order_reply once the order id is extracted
order_reply_for(order_id, configured, shop) ==
    IF order_id = "" THEN OrderReply(AskOrderNumber, OrderInfo("empty", "", NoOrder), 0)
    ELSE order_reply_after_lookup(order_id, lookup_order(order_id, configured, shop))

generate_order_reply(transcript, configured, shop) ==
    IF ~\E p \in order_phrases : Contains(lower(transcript), p)
    THEN OrderReply("", OrderInfo("none", "", NoOrder), 0)
    ELSE order_reply_for(ExtractOrderId(transcript), configured, shop)

\* what the helpers that call OpenAI return, and the number of requests sent
Answer(text, requests) == [text |-> text, requests |-> requests]

\* llm.ok: the chat completion answered 200 with a parsable body
generate_support_reply(transcript, api_key, llm) ==
    IF ~api_key THEN Answer("", 0)
    ELSE IF ~llm.ok THEN Answer("", 1)
    ELSE Answer(strip(llm.content), 1)

\* rec.download: "ok" (first GET is 200), "alt_ok" (the GET of url + ".wav" is
\* 200), "missing" (neither is), "exception"; rec.stt_ok: the transcription
\* POST answered 200 with a parsable body carrying rec.text
transcribe_recording(api_key, rec) ==
    IF ~api_key THEN Answer("", 0)
    ELSE IF rec.download = "exception" THEN Answer("", 1)
    ELSE IF rec.download = "missing" THEN Answer("", 2)
    ELSE IF rec.stt_ok THEN Answer(rec.text, (IF rec.download = "ok" THEN 1 ELSE 2) + 1)
    ELSE Answer("", (IF rec.download = "ok" THEN 1 ELSE 2) + 1)

(***************************************************************************)
(* Chatwoot integration (integrations/chatwoot.py)                         *)
(*                                                                         *)
(* _call_map is a function from call ids to conversation ids, 0 for a      *)
(* missing key.  A handler threads a context ctx = [map, calls]: the       *)
(* registry and the integration calls made so far while handling the       *)
(* event.  Each call is recorded with the conversation it resolved (0 for  *)
(* none), whether a POST was sent to the backend and whether it succeeded. *)
(* oks[n] is the outcome of the n-th POST of the event.                    *)
(***************************************************************************)
NoCall == ""

Call(fn, content, message_type, reason, conv, sent, ok) ==
    [fn |-> fn, content |-> content, message_type |-> message_type, reason |-> reason,
     conv |-> conv, sent |-> sent, ok |-> ok]

NumSent(calls) == Cardinality({i \in DOMAIN calls : calls[i].sent})

\* outcome of the n-th POST of the event
OkAt(oks, n) == IF n \in DOMAIN oks THEN oks[n] ELSE TRUE

\* add_message: [sent, ok] of the POST to the conversation
add_message(conversation_id, content, message_type, configured, ok) ==
    IF ~configured THEN [sent |-> FALSE, ok |-> FALSE] ELSE [sent |-> TRUE, ok |-> ok]

\* the context after a call of fn that resolved conv_id and whose POST, if
\* any, ended as r
Recorded(ctx, fn, content, message_type, reason, conv_id, r) ==
    [ctx EXCEPT !.calls = Append(@, Call(fn, content, message_type, reason, conv_id,
                                         r.sent, r.ok))]

add_message_for_call(ctx, call_sid, content, message_type, configured, oks) ==
    IF ctx.map[call_sid] = 0
    THEN Recorded(ctx, "add_message_for_call", content, message_type, "", 0,
                  [sent |-> FALSE, ok |-> FALSE])
    ELSE Recorded(ctx, "add_message_for_call", content, message_type, "", ctx.map[call_sid],
                  add_message(ctx.map[call_sid], content, message_type, configured,
                              OkAt(oks, NumSent(ctx.calls) + 1)))

\* variant: the mapping is kept after the end-of-call message (sensitivity of C3)
end_conversation_keeps_entry(ctx, call_sid, reason, configured, oks) ==
    IF ctx.map[call_sid] = 0
    THEN Recorded(ctx, "end_conversation", "", "", reason, 0, [sent |-> FALSE, ok |-> FALSE])
    ELSE Recorded(ctx, "end_conversation", "Call ended: " \o reason, "outgoing", reason,
                  ctx.map[call_sid],
                  add_message(ctx.map[call_sid], "Call ended: " \o reason, "outgoing",
                              configured, OkAt(oks, NumSent(ctx.calls) + 1)))

\* variant: the mapping is removed only when the end-of-call message was
\* delivered (sensitivity of C21)
end_conversation_pops_on_success(ctx, call_sid, reason, configured, oks) ==
    IF ctx.map[call_sid] = 0
    THEN Recorded(ctx, "end_conversation", "", "", reason, 0, [sent |-> FALSE, ok |-> FALSE])
    ELSE [Recorded(ctx, "end_conversation", "Call ended: " \o reason, "outgoing", reason,
                   ctx.map[call_sid],
                   add_message(ctx.map[call_sid], "Call ended: " \o reason, "outgoing",
                               configured, OkAt(oks, NumSent(ctx.calls) + 1)))
          EXCEPT !.map[call_sid] = IF OkAt(oks, NumSent(ctx.calls) + 1) THEN 0 ELSE @]

end_conversation(ctx, call_sid, reason, configured, oks) ==
    IF ctx.map[call_sid] = 0
    THEN Recorded(ctx, "end_conversation", "", "", reason, 0, [sent |-> FALSE, ok |-> FALSE])
    ELSE [Recorded(ctx, "end_conversation", "Call ended: " \o reason, "outgoing", reason,
                   ctx.map[call_sid],
                   add_message(ctx.map[call_sid], "Call ended: " \o reason, "outgoing",
                               configured, OkAt(oks, NumSent(ctx.calls) + 1)))
          EXCEPT !.map[call_sid] = 0]

\* create_conversation once the backend has answered: conv_id is the id of
\* the new conversation, 0 for None
conversation_created(ctx, call_sid, configured, conv_id) ==
    [map |-> IF conv_id # 0 /\ call_sid # NoCall
             THEN [ctx.map EXCEPT ![call_sid] = conv_id] ELSE ctx.map,
     calls |-> Append(ctx.calls, Call("create_conversation", "", "", "", conv_id,
                                      configured, conv_id # 0))]

\* cw.contact: "created" (contact POST is 200/201), "found" (search finds the
\* contact), "none"; cw.conv_ok: the conversation POST is 200/201 and carries
\* the id new_id
create_conversation(ctx, call_sid, configured, cw, new_id) ==
    conversation_created(ctx, call_sid, configured,
                         IF configured /\ cw.contact # "none" /\ cw.conv_ok THEN new_id ELSE 0)

\* the conversation id create_conversation returned
Created(ctx) == ctx.calls[Len(ctx.calls)].conv

\* a best-effort log call under `if cond:`
LogIf(cond, ctx, call_sid, content, message_type, configured, oks) ==
    IF cond THEN add_message_for_call(ctx, call_sid, content, message_type, configured, oks)
    ELSE ctx

(***************************************************************************)
(* Responses                                                               *)
(***************************************************************************)
Resp(kind, text) == [kind |-> kind, text |-> text]

Greeting == "Thanks for calling support. Please say how I can help you."
VapiGreeting == "Thanks for calling support. How can I help you today?"
TransferText == "Connecting you to a human agent. Please hold."
GoodbyeText == "Goodbye. Have a great day."

\* or-chaining of `x or 'unknown'`
OrUnknown(x) == IF x # "" THEN x ELSE "unknown"
\* str() of an optional field
PyStr(x) == IF x # "" THEN x ELSE "None"

\* what a handler returns to the model: the registry, the integration calls,
\* the HTTP response, the transcript it worked on and the number of requests
\* it sent to speech-to-text, the shop and the chat completion
Result(ctx, response, transcript, stt, lookups, replies) ==
    [map |-> ctx.map, calls |-> ctx.calls, response |-> response, transcript |-> transcript,
     stt |-> stt, lookups |-> lookups, replies |-> replies]

\* the result of a turn that ended in the branch result b = [ctx, response,
\* lookups, replies], for the transcript tr = [text, requests]
TurnResult(b, tr) == Result(b.ctx, b.response, tr.text, tr.requests, b.lookups, b.replies)

Branch(ctx, response, lookups, replies) ==
    [ctx |-> ctx, response |-> response, lookups |-> lookups, replies |-> replies]

\* the Chatwoot message that reports an order reply
OrderLogText(order_info) ==
    IF order_info.kind = "none" THEN "Order lookup: N/A"
    ELSE IF order_info.kind = "empty" THEN "Agent: Asked customer for order number"
    ELSE IF order_info.kind = "not_found"
    THEN "Agent: Order lookup attempted for " \o order_info.searched_order \o ", not found"
    ELSE "Agent: Order lookup result for " \o order_info.searched_order
         \o ": status=" \o PyStr(order_info.order.financial_status)
         \o ", fulfillment=" \o PyStr(order_info.order.fulfillment_status)

\* the log of the call-started message, made when a conversation was created
log_call_started(ctx, call_sid, content, env, oks) ==
    LogIf(Created(ctx) # 0, ctx, call_sid, content, "incoming", env.chatwoot, oks)

(***************************************************************************)
(* Twilio routes (api/webhooks.py, handlers/voice.py)                      *)
(***************************************************************************)
handle_incoming_call(payload) == Resp("record", Greeting)

inbound_voice(ctx, payload, env, cw, new_id, oks) ==
    IF env.disable_twilio THEN Result(ctx, Resp("gone", ""), "", 0, 0, 0)
    ELSE IF payload.CallSid = NoCall THEN Result(ctx, handle_incoming_call(payload), "", 0, 0, 0)
    ELSE Result(log_call_started(create_conversation(ctx, payload.CallSid, env.chatwoot, cw,
                                                     new_id),
                                 payload.CallSid,
                                 "Call started from " \o OrUnknown(payload.From), env, oks),
                handle_incoming_call(payload), "", 0, 0, 0)

\* the payload inbound_voice works on: the fields of the body, or the empty
\* payload when the JSON body cannot be parsed
inbound_payload(parsed, call, phone) ==
    IF parsed THEN [CallSid |-> call, From |-> phone] ELSE [CallSid |-> NoCall, From |-> ""]

\* inbound_voice for a request whose body is parsed or not; multipart: the
\* content type is multipart/form-data, read with request.form() outside
\* any try, so that the parser's exception for a malformed body ends the
\* request with an error response
inbound_request(ctx, parsed, multipart, call, phone, env, cw, new_id, oks) ==
    IF ~env.disable_twilio /\ multipart /\ ~parsed
    THEN Result(ctx, Resp("error", "form parsing failed"), "", 0, 0, 0)
    ELSE inbound_voice(ctx, inbound_payload(parsed, call, phone), env, cw, new_id, oks)

\* escalation branch of transcribe
transcribe_escalate(ctx, call_sid, env, oks) ==
    Branch(IF call_sid = NoCall THEN ctx
           ELSE add_message_for_call(
                    add_message_for_call(ctx, call_sid,
                                         "User requested escalation to human agent",
                                         "incoming", env.chatwoot, oks),
                    call_sid, "Agent: Escalation requested; transferring to human agent",
                    "outgoing", env.chatwoot, oks),
           Resp("transfer", TransferText), 0, 0)

\* variant: the goodbye is logged but the conversation is not ended
\* (sensitivity of C2)
transcribe_stop_without_close(ctx, call_sid, env, oks) ==
    Branch(IF call_sid = NoCall THEN ctx
           ELSE add_message_for_call(ctx, call_sid, "Call ended: user ended", "outgoing",
                                     env.chatwoot, oks),
           Resp("hangup", GoodbyeText), 0, 0)

\* stop branch of transcribe
transcribe_stop(ctx, call_sid, env, oks) ==
    Branch(IF call_sid = NoCall THEN ctx
           ELSE end_conversation(
                    add_message_for_call(ctx, call_sid, "Call ended: user ended", "outgoing",
                                         env.chatwoot, oks),
                    call_sid, "user ended", env.chatwoot, oks),
           Resp("hangup", GoodbyeText), 0, 0)

\* variant: the reply is played only when it could be logged (sensitivity of C7)
transcribe_speak_only_if_logged(ctx, call_sid, sr, lookups, env, oks) ==
    Branch(LogIf(sr.text # "" /\ call_sid # NoCall, ctx, call_sid, "Agent: " \o sr.text,
                 "outgoing", env.chatwoot, oks),
           IF sr.text # "" /\ (call_sid = NoCall
                               \/ (/\ env.chatwoot /\ ctx.map[call_sid] # 0
                                   /\ OkAt(oks, NumSent(ctx.calls) + 1)))
           THEN Resp("play_gather", sr.text) ELSE Resp("empty", ""),
           lookups, sr.requests)

\* variant: an empty reply ends the conversation as silence does
\* (sensitivity of C14)
transcribe_speak_closes_on_empty(ctx, call_sid, sr, lookups, env, oks) ==
    Branch(IF call_sid = NoCall THEN ctx
           ELSE IF sr.text # ""
           THEN add_message_for_call(ctx, call_sid, "Agent: " \o sr.text, "outgoing",
                                     env.chatwoot, oks)
           ELSE end_conversation(ctx, call_sid, "silence", env.chatwoot, oks),
           IF sr.text # "" THEN Resp("play_gather", sr.text) ELSE Resp("empty", ""),
           lookups, sr.requests)

\* end of transcribe: log the reply sr = [text, requests] and play it
transcribe_speak(ctx, call_sid, sr, lookups, env, oks) ==
    Branch(LogIf(sr.text # "" /\ call_sid # NoCall, ctx, call_sid, "Agent: " \o sr.text,
                 "outgoing", env.chatwoot, oks),
           IF sr.text # "" THEN Resp("play_gather", sr.text) ELSE Resp("empty", ""),
           lookups, sr.requests)

\* transcribe once generate_order_reply has returned og
transcribe_after_order(ctx, call_sid, transcript, og, env, llm, oks) ==
    transcribe_speak(LogIf(og.reply # "" /\ call_sid # NoCall, ctx, call_sid,
                           OrderLogText(og.order_info), "outgoing", env.chatwoot, oks),
                     call_sid,
                     IF og.reply = "" THEN generate_support_reply(transcript, env.openai, llm)
                     ELSE Answer(og.reply, 0),
                     og.requests, env, oks)

\* order / general reply part of transcribe
transcribe_reply(ctx, call_sid, transcript, env, shop, llm, oks) ==
    transcribe_after_order(ctx, call_sid, transcript,
                           generate_order_reply(transcript, env.shopify, shop), env, llm, oks)

\* transcribe after the transcript was logged
transcribe_intent(ctx, call_sid, tr, transcript_lower, env, shop, llm, oks) ==
    IF EscalationMatch(transcript_lower)
    THEN TurnResult(transcribe_escalate(ctx, call_sid, env, oks), tr)
    ELSE IF StopMatch(transcript_lower)
    THEN TurnResult(transcribe_stop(ctx, call_sid, env, oks), tr)
    ELSE TurnResult(transcribe_reply(ctx, call_sid, tr.text, env, shop, llm, oks), tr)

\* transcribe once the transcript tr = [text, requests] is determined
transcribe_transcript(ctx, call_sid, tr, env, shop, llm, oks) ==
    IF tr.text = ""
    THEN Result(IF call_sid # NoCall
                THEN end_conversation(ctx, call_sid, "silence", env.chatwoot, oks) ELSE ctx,
                Resp("empty", ""), tr.text, tr.requests, 0, 0)
    ELSE transcribe_intent(LogIf(call_sid # NoCall, ctx, call_sid, "User: " \o tr.text,
                                 "incoming", env.chatwoot, oks),
                           call_sid, tr, strip(lower(tr.text)), env, shop, llm, oks)

\* variant: an exception of the recording download is not caught and the
\* request fails (sensitivity of C18)
transcribe_download_error_propagates(ctx, form, env, rec, shop, llm, oks) ==
    IF form.SpeechResult = "" /\ form.RecordingUrl /\ env.openai /\ rec.download = "exception"
    THEN Result(ctx, Resp("error", "Internal Server Error"), "", 1, 0, 0)
    ELSE transcribe_transcript(ctx, form.CallSid,
                               IF form.SpeechResult # "" THEN Answer(form.SpeechResult, 0)
                               ELSE IF form.RecordingUrl
                               THEN transcribe_recording(env.openai, rec)
                               ELSE Answer("", 0),
                               env, shop, llm, oks)

transcribe(ctx, form, env, rec, shop, llm, oks) ==
    transcribe_transcript(ctx, form.CallSid,
                          IF form.SpeechResult # "" THEN Answer(form.SpeechResult, 0)
                          ELSE IF form.RecordingUrl THEN transcribe_recording(env.openai, rec)
                          ELSE Answer("", 0),
                          env, shop, llm, oks)

(***************************************************************************)
(* VAPI route (api/webhooks.py)                                            *)
(***************************************************************************)
vapi_call_started(ctx, body, env, cw, new_id, oks) ==
    Result(IF body.call_id = NoCall THEN ctx
           ELSE log_call_started(create_conversation(ctx, body.call_id, env.chatwoot, cw,
                                                     new_id),
                                 body.call_id,
                                 "Call started via VAPI from " \o OrUnknown(body.from), env, oks),
           Resp("assistant_response", VapiGreeting), "", 0, 0, 0)

\* variant: the conversation is ended before the goodbye is logged
\* (sensitivity of C10)
vapi_stop_close_first(ctx, call_id, env, oks) ==
    Branch(IF call_id = NoCall THEN ctx
           ELSE add_message_for_call(
                    end_conversation(ctx, call_id, "user ended", env.chatwoot, oks),
                    call_id, "Call ended: user ended", "outgoing", env.chatwoot, oks),
           Resp("end_call", "user_ended"), 0, 0)

\* stop branch of user_message
vapi_stop(ctx, call_id, env, oks) ==
    Branch(IF call_id = NoCall THEN ctx
           ELSE end_conversation(
                    add_message_for_call(ctx, call_id, "Call ended: user ended", "outgoing",
                                         env.chatwoot, oks),
                    call_id, "user ended", env.chatwoot, oks),
           Resp("end_call", "user_ended"), 0, 0)

\* escalation branch of user_message
vapi_escalate(ctx, call_id, env, oks) ==
    Branch(IF call_id = NoCall THEN ctx
           ELSE add_message_for_call(
                    add_message_for_call(ctx, call_id,
                                         "User requested escalation to human agent",
                                         "incoming", env.chatwoot, oks),
                    call_id, "Agent: Escalation requested; transferring to human agent",
                    "outgoing", env.chatwoot, oks),
           Resp("handoff", "user_requested_human"), 0, 0)

\* end of user_message: log the reply sr = [text, requests] and return it
vapi_speak(ctx, call_id, sr, lookups, env, oks) ==
    Branch(LogIf(call_id # NoCall, ctx, call_id, "Agent: " \o sr.text, "outgoing",
                 env.chatwoot, oks),
           Resp("assistant_response", sr.text), lookups, sr.requests)

\* user_message once generate_order_reply has returned og
vapi_after_order(ctx, call_id, transcript, og, env, llm, oks) ==
    vapi_speak(LogIf(og.reply # "" /\ call_id # NoCall /\ og.order_info.kind # "none", ctx,
                     call_id, OrderLogText(og.order_info), "outgoing", env.chatwoot, oks),
               call_id,
               IF og.reply = "" THEN generate_support_reply(transcript, env.openai, llm)
               ELSE Answer(og.reply, 0),
               og.requests, env, oks)

\* order / general reply part of user_message
vapi_reply(ctx, call_id, transcript, env, shop, llm, oks) ==
    vapi_after_order(ctx, call_id, transcript,
                     generate_order_reply(transcript, env.shopify, shop), env, llm, oks)

\* user_message after the transcript was logged
vapi_intent(ctx, call_id, tr, t_lower, env, shop, llm, oks) ==
    IF tr.text # "" /\ StopMatch(t_lower)
    THEN TurnResult(vapi_stop(ctx, call_id, env, oks), tr)
    ELSE IF tr.text # "" /\ EscalationMatch(t_lower)
    THEN TurnResult(vapi_escalate(ctx, call_id, env, oks), tr)
    ELSE TurnResult(vapi_reply(ctx, call_id, tr.text, env, shop, llm, oks), tr)

\* user_message for the stripped transcript
vapi_transcript(ctx, call_id, transcript, env, shop, llm, oks) ==
    vapi_intent(LogIf(call_id # NoCall /\ transcript # "", ctx, call_id,
                      "User: " \o transcript, "incoming", env.chatwoot, oks),
                call_id, Answer(transcript, 0), lower(transcript), env, shop, llm, oks)

vapi_user_message(ctx, body, env, shop, llm, oks) ==
    vapi_transcript(ctx, body.call_id, strip(body.text), env, shop, llm, oks)

\* variant: call_ended logs the end but does not end the conversation
\* (sensitivity of C4)
vapi_call_ended_log_only(ctx, body, env, oks) ==
    Result(IF body.call_id = NoCall THEN ctx
           ELSE add_message_for_call(ctx, body.call_id, "Call ended via VAPI", "outgoing",
                                     env.chatwoot, oks),
           Resp("status", "ok"), "", 0, 0, 0)

vapi_call_ended(ctx, body, env, oks) ==
    Result(IF body.call_id = NoCall THEN ctx
           ELSE end_conversation(
                    add_message_for_call(ctx, body.call_id, "Call ended via VAPI", "outgoing",
                                         env.chatwoot, oks),
                    body.call_id, "vapi call ended", env.chatwoot, oks),
           Resp("status", "ok"), "", 0, 0, 0)

\* vapi_events for a parsed body of the (lower-cased) type event_type
vapi_event(ctx, body, event_type, env, cw, new_id, shop, llm, oks) ==
    IF event_type = "call_started" THEN vapi_call_started(ctx, body, env, cw, new_id, oks)
    ELSE IF event_type = "user_message" THEN vapi_user_message(ctx, body, env, shop, llm, oks)
    ELSE IF event_type = "call_ended" THEN vapi_call_ended(ctx, body, env, oks)
    ELSE Result(ctx, Resp("status", "received"), "", 0, 0, 0)

\* body.parsed: request.json() succeeded
vapi_events(ctx, body, env, cw, new_id, shop, llm, oks) ==
    IF ~body.parsed THEN Result(ctx, Resp("status", "received"), "", 0, 0, 0)
    ELSE vapi_event(ctx, body, lower(body.type), env, cw, new_id, shop, llm, oks)

(***************************************************************************)
(* Bounds and input sets                                                   *)
(***************************************************************************)
\* conversations the backend creates in one run
MaxConv == 2
\* POSTs to the backend whose outcome is drawn per event
MaxPosts == 3

CallIds == {"CA1", "CA2"}
Phones == {"", "+15550100"}

Transcripts ==
    {"", "  ", "Goodbye", "no, get me an agent", "I want to talk to a human",
     "I know, that is inhumane", "Where is my order #4521", "order status",
     "where is my order", "what is my order number", "Do you ship to Canada",
     "that's all, where is my order #4521"}

\* texts speech-to-text returns
RecTexts == {"", "Goodbye"}

\* process environment: which integrations are configured
Env(chatwoot, shopify, openai, disable_twilio) ==
    [chatwoot |-> chatwoot, shopify |-> shopify, openai |-> openai,
     disable_twilio |-> disable_twilio]

Environments ==
    {Env(TRUE, TRUE, TRUE, FALSE), Env(FALSE, FALSE, FALSE, FALSE), Env(FALSE, TRUE, TRUE, TRUE)}

Rec(download, stt_ok, text) == [download |-> download, stt_ok |-> stt_ok, text |-> text]
DefaultRec == Rec("exception", FALSE, "")
RecOutcomes ==
    {Rec(d, TRUE, t) : d \in {"ok", "alt_ok"}, t \in RecTexts}
    \cup {Rec(d, FALSE, "") : d \in {"ok", "missing", "exception"}}

Shop(r, order) == [r |-> r, order |-> order]
DefaultShop == Shop(<<"error", "error", "error">>, NoOrder)
ShopScenarios ==
    {Shop(<<"hit", "hit", "hit">>, Order4521), Shop(<<"hit", "hit", "hit">>, OrderDraft),
     Shop(<<"error", "hit", "hit">>, Order4521), Shop(<<"error", "miss", "hit">>, Order4521),
     Shop(<<"miss", "miss", "miss">>, NoOrder), Shop(<<"error", "error", "error">>, NoOrder)}

Llm(ok, content) == [ok |-> ok, content |-> content]
DefaultLlm == Llm(FALSE, "")
LlmOutcomes == {Llm(FALSE, ""), Llm(TRUE, "  "), Llm(TRUE, " We ship worldwide. ")}

Cw(contact, conv_ok) == [contact |-> contact, conv_ok |-> conv_ok]
CwOutcomes == {Cw("created", TRUE), Cw("found", TRUE), Cw("created", FALSE), Cw("none", FALSE)}

AllOk == [n \in 1..MaxPosts |-> TRUE]
\* outcomes of the n POSTs of an event: the backend answers the first k - 1
\* and fails from the k-th on (k = n + 1: every POST succeeds)
OkPatterns(n) == {[i \in 1..MaxPosts |-> i < k] : k \in 1..(n + 1)}

Form(CallSid, SpeechResult, RecordingUrl) ==
    [CallSid |-> CallSid, SpeechResult |-> SpeechResult, RecordingUrl |-> RecordingUrl]

Body(parsed, type, call_id, from, text) ==
    [parsed |-> parsed, type |-> type, call_id |-> call_id, from |-> from, text |-> text]

(***************************************************************************)
(* State                                                                   *)
(*   env        the process environment, fixed at start-up                 *)
(*   call_map   chatwoot._call_map                                         *)
(*   next_conv  the id the backend gives to the next conversation          *)
(*   pending    the webhook delivery being handled, if any                 *)
(*   turn       the last handled event: its inputs, the handler's result   *)
(*              and the registry entry of its call before the handler ran  *)
(*   life       per call id, what the last call-start / call-end event     *)
(*              handled for it was                                         *)
(* and, for the handlers that run concurrently (SpecConcurrent below):     *)
(*   tasks      the handlers in flight, each suspended at an await         *)
(*   tickets    per conversation of the backend, the call id it was        *)
(*              created for and the call ids whose handlers posted to it   *)
(*   accepted   the number of events accepted so far                       *)
(***************************************************************************)
VARIABLES env, call_map, next_conv, pending, turn, life, tasks, tickets, accepted

vars == <<env, call_map, next_conv, pending, turn, life, tasks, tickets, accepted>>

\* handlers the event loop runs at the same time
Slots == {1, 2}

\* an integration call a handler makes, in the order of its code
Op(fn, content) == [fn |-> fn, content |-> content]

\* a handler in flight: the call id of its event, the integration calls it
\* still has to make (the first one is in progress), the await it is
\* suspended at, the conversation its POST in flight addresses and the
\* conversation id create_conversation returned to it
Task(call, prog, pc, conv, created) ==
    [call |-> call, prog |-> prog, pc |-> pc, conv |-> conv, created |-> created]

NoTask == Task(NoCall, <<>>, "idle", 0, 0)
NoTasks == [s \in Slots |-> NoTask]

NoTickets == [k \in 1..MaxConv |-> [owner |-> NoCall, posters |-> {}]]

Idle == [endpoint |-> "", event |-> "", call |-> NoCall]

NoInput == [text |-> "", recording |-> FALSE, rec |-> DefaultRec, shop |-> DefaultShop,
            llm |-> DefaultLlm]

NoTurn ==
    [endpoint |-> "", event |-> "", call |-> NoCall, input |-> NoInput, before |-> 0,
     was |-> "new", transcript |-> "", response |-> Resp("", ""), calls |-> <<>>,
     stt |-> 0, lookups |-> 0, replies |-> 0]

Turn(p, input, res) ==
    [endpoint |-> p.endpoint, event |-> p.event, call |-> p.call, input |-> input,
     before |-> IF p.call = NoCall THEN 0 ELSE call_map[p.call],
     was |-> IF p.call = NoCall THEN "new" ELSE life[p.call],
     transcript |-> res.transcript, response |-> res.response, calls |-> res.calls,
     stt |-> res.stt, lookups |-> res.lookups, replies |-> res.replies]

Ctx == [map |-> call_map, calls |-> <<>>]

Deliveries ==
    {[endpoint |-> e[1], event |-> e[2], call |-> c] :
        e \in {<<"/voice/inbound", "call_started">>, <<"/voice/inbound", "unparsable">>,
               <<"/voice/transcribe", "user_message">>,
               <<"/vapi/events", "call_started">>, <<"/vapi/events", "user_message">>,
               <<"/vapi/events", "call_ended">>, <<"/vapi/events", "other">>,
               <<"/vapi/events", "unparsable">>},
        c \in CallIds \cup {NoCall}}

Init ==
    /\ env \in Environments
    /\ call_map = [c \in CallIds |-> 0]
    /\ next_conv = 1
    /\ pending = Idle
    /\ turn = NoTurn
    /\ life = [c \in CallIds |-> "new"]
    /\ tasks = NoTasks
    /\ tickets = NoTickets
    /\ accepted = 0

\* the telephony provider posts a webhook
Deliver ==
    /\ pending = Idle
    /\ \E d \in Deliveries : pending' = d
    /\ turn' = NoTurn
    /\ UNCHANGED <<env, call_map, next_conv, life, tasks, tickets, accepted>>

\* the handler has returned res
Finish(input, res, life2) ==
    /\ turn' = Turn(pending, input, res)
    /\ call_map' = res.map
    /\ next_conv' = IF \E i \in DOMAIN res.calls :
                          res.calls[i].fn = "create_conversation" /\ res.calls[i].conv # 0
                    THEN next_conv + 1 ELSE next_conv
    /\ life' = life2
    /\ pending' = Idle
    /\ UNCHANGED <<env, tasks, tickets, accepted>>

\* life after a call-start event whose handler returned res
Started(res) ==
    IF pending.call = NoCall \/ ~\E i \in DOMAIN res.calls : res.calls[i].fn = "create_conversation"
    THEN life
    ELSE [life EXCEPT ![pending.call] = IF res.calls[1].conv # 0 THEN "open" ELSE "create_failed"]

\* outcomes of ticket creation the backend can still produce
CwNow == {cw \in CwOutcomes : cw.conv_ok => next_conv <= MaxConv}

InboundVoice ==
    /\ pending.endpoint = "/voice/inbound"
    /\ \E phone \in Phones, cw \in CwNow, oks \in OkPatterns(1), multipart \in BOOLEAN :
          LET res == inbound_request(Ctx, pending.event # "unparsable", multipart,
                                     pending.call, phone, env, cw, next_conv, oks)
          IN  Finish(NoInput, res, Started(res))

Transcribe ==
    /\ pending.endpoint = "/voice/transcribe"
    /\ \E speech \in Transcripts, recording \in BOOLEAN :
       \E rec \in IF speech = "" /\ recording THEN RecOutcomes ELSE {DefaultRec} :
          LET form == Form(pending.call, speech, recording)
              probe == transcribe(Ctx, form, env, rec, DefaultShop, DefaultLlm, AllOk)
          IN  \E shop \in IF probe.lookups > 0 THEN ShopScenarios ELSE {DefaultShop} :
              \E llm \in IF probe.replies > 0 THEN LlmOutcomes ELSE {DefaultLlm} :
              \E oks \in OkPatterns(NumSent(transcribe(Ctx, form, env, rec, shop, llm, AllOk).calls)) :
                 Finish([text |-> speech, recording |-> recording, rec |-> rec, shop |-> shop,
                         llm |-> llm],
                        transcribe(Ctx, form, env, rec, shop, llm, oks), life)

VapiCallStarted ==
    /\ pending.endpoint = "/vapi/events" /\ pending.event = "call_started"
    /\ \E phone \in Phones, cw \in CwNow, oks \in OkPatterns(1) :
          LET body == Body(TRUE, "call_started", pending.call, phone, "")
              res == vapi_events(Ctx, body, env, cw, next_conv, DefaultShop, DefaultLlm, oks)
          IN  Finish(NoInput, res, Started(res))

VapiUserMessage ==
    /\ pending.endpoint = "/vapi/events" /\ pending.event = "user_message"
    /\ \E text \in Transcripts :
          LET body == Body(TRUE, "user_message", pending.call, "", text)
              cw == Cw("none", FALSE)
              probe == vapi_events(Ctx, body, env, cw, next_conv, DefaultShop, DefaultLlm, AllOk)
          IN  \E shop \in IF probe.lookups > 0 THEN ShopScenarios ELSE {DefaultShop} :
              \E llm \in IF probe.replies > 0 THEN LlmOutcomes ELSE {DefaultLlm} :
              \E oks \in OkPatterns(NumSent(vapi_events(Ctx, body, env, cw, next_conv, shop, llm,
                                                        AllOk).calls)) :
                 Finish([text |-> text, recording |-> FALSE, rec |-> DefaultRec, shop |-> shop,
                         llm |-> llm],
                        vapi_events(Ctx, body, env, cw, next_conv, shop, llm, oks), life)

VapiCallEnded ==
    /\ pending.endpoint = "/vapi/events" /\ pending.event = "call_ended"
    /\ \E oks \in OkPatterns(NumSent(vapi_events(Ctx, Body(TRUE, "call_ended", pending.call, "", ""),
                                                 env, Cw("none", FALSE), next_conv, DefaultShop,
                                                 DefaultLlm, AllOk).calls)) :
          LET body == Body(TRUE, "call_ended", pending.call, "", "")
              res == vapi_events(Ctx, body, env, Cw("none", FALSE), next_conv, DefaultShop,
                                 DefaultLlm, oks)
          IN  Finish(NoInput, res,
                     IF pending.call = NoCall THEN life
                     ELSE [life EXCEPT ![pending.call] = "ended"])

\* an event of another type, or a body that is not JSON
VapiOther ==
    /\ pending.endpoint = "/vapi/events" /\ pending.event \in {"other", "unparsable"}
    /\ LET body == Body(pending.event = "other", "Status_Update", pending.call, "", "")
           res == vapi_events(Ctx, body, env, Cw("none", FALSE), next_conv, DefaultShop,
                              DefaultLlm, AllOk)
       IN  Finish(NoInput, res, life)

Next ==
    \/ Deliver
    \/ InboundVoice
    \/ Transcribe
    \/ VapiCallStarted
    \/ VapiUserMessage
    \/ VapiCallEnded
    \/ VapiOther

Spec == Init /\ [][Next]_vars

(***************************************************************************)
(* Handlers that run concurrently                                          *)
(*                                                                         *)
(* The event loop runs one handler at a time between two awaits: a step    *)
(* resumes a handler whose awaited request to the backend has completed    *)
(* and runs it up to its next await.  _call_map is read when               *)
(* add_message_for_call or end_conversation is entered, written when the   *)
(* conversation POST of create_conversation has answered, and popped when  *)
(* the POST of end_conversation has answered.                              *)
(***************************************************************************)
\* events accepted in one run
MaxEvents == 4

\* the integration calls of the handlers, in the order of their code
StartProgram ==
    <<Op("create_conversation", ""),
      Op("log_call_started", "Call started via VAPI from unknown")>>
StopProgram ==
    <<Op("add_message_for_call", "User: Goodbye"),
      Op("add_message_for_call", "Call ended: user ended"),
      Op("end_conversation", "user ended")>>
ReplyProgram ==
    <<Op("add_message_for_call", "User: Do you ship to Canada"),
      Op("generate_support_reply", ""),
      Op("add_message_for_call", "Agent: We ship worldwide.")>>
EndedProgram ==
    <<Op("add_message_for_call", "Call ended via VAPI"),
      Op("end_conversation", "vapi call ended")>>

Programs == {StartProgram, StopProgram, ReplyProgram, EndedProgram}

\* _call_map[call_sid] = conv_id
registry_set(map, call_sid, conv_id) == [map EXCEPT ![call_sid] = conv_id]

\* variant: the end of a call clears the registry (sensitivity of C17)
registry_pop_clears(map, call_sid) == [c \in CallIds |-> 0]

\* _call_map.pop(call_sid, None)
registry_pop(map, call_sid) == [map EXCEPT ![call_sid] = 0]

\* the handler has returned from its integration call in progress
Returned(t) == [t EXCEPT !.prog = Tail(@), !.pc = "run", !.conv = 0]

\* a resumed handler runs up to its next await: a call that finds the
\* integration not configured, or no conversation for the call id, returns
\* without suspending
RECURSIVE RunToAwait(_, _, _)
RunToAwait(t, map, configured) ==
    IF t.prog = <<>> THEN NoTask
    ELSE IF Head(t.prog).fn = "generate_support_reply" THEN [t EXCEPT !.pc = "reply"]
    ELSE IF ~configured THEN RunToAwait(Returned(t), map, configured)
    ELSE IF Head(t.prog).fn = "create_conversation" THEN [t EXCEPT !.pc = "contact"]
    ELSE IF Head(t.prog).fn = "log_call_started" /\ t.created = 0
    THEN RunToAwait(Returned(t), map, configured)
    ELSE IF map[t.call] = 0 THEN RunToAwait(Returned(t), map, configured)
    ELSE [t EXCEPT !.pc = "post", !.conv = map[t.call]]

InitConcurrent ==
    /\ env \in {e \in Environments : e.chatwoot}
    /\ call_map = [c \in CallIds |-> 0]
    /\ next_conv = 1
    /\ pending = Idle
    /\ turn = NoTurn
    /\ life = [c \in CallIds |-> "new"]
    /\ tasks = NoTasks
    /\ tickets = NoTickets
    /\ accepted = 0

\* a webhook arrives and its handler runs up to its first await
Accept(s) ==
    /\ tasks[s] = NoTask
    /\ accepted < MaxEvents
    /\ \E call \in CallIds, prog \in Programs :
          tasks' = [tasks EXCEPT ![s] = RunToAwait(Task(call, prog, "run", 0, 0), call_map,
                                                   env.chatwoot)]
    /\ accepted' = accepted + 1
    /\ UNCHANGED <<env, call_map, next_conv, pending, turn, life, tickets>>

\* create_conversation: the contact POST has answered
ContactPosted(s) ==
    /\ tasks[s].pc = "contact"
    /\ \E ok \in BOOLEAN :
          tasks' = [tasks EXCEPT ![s].pc = IF ok THEN "conversation" ELSE "search"]
    /\ UNCHANGED <<env, call_map, next_conv, pending, turn, life, tickets, accepted>>

\* create_conversation: the contact search has answered
ContactSearched(s) ==
    /\ tasks[s].pc = "search"
    /\ \E found \in BOOLEAN :
          tasks' = [tasks EXCEPT ![s] = IF found THEN [@ EXCEPT !.pc = "conversation"]
                                        ELSE RunToAwait(Returned(@), call_map, env.chatwoot)]
    /\ UNCHANGED <<env, call_map, next_conv, pending, turn, life, tickets, accepted>>

\* create_conversation: the conversation POST has answered
ConversationPosted(s) ==
    /\ tasks[s].pc = "conversation"
    /\ \E ok \in {b \in BOOLEAN : b => next_conv <= MaxConv} :
          IF ok
          THEN /\ call_map' = registry_set(call_map, tasks[s].call, next_conv)
               /\ next_conv' = next_conv + 1
               /\ tickets' = [tickets EXCEPT ![next_conv].owner = tasks[s].call]
               /\ tasks' = [tasks EXCEPT
                               ![s] = RunToAwait([Returned(@) EXCEPT !.created = next_conv],
                                                 call_map', env.chatwoot)]
          ELSE /\ tasks' = [tasks EXCEPT
                               ![s] = RunToAwait(Returned(@), call_map, env.chatwoot)]
               /\ UNCHANGED <<call_map, next_conv, tickets>>
    /\ UNCHANGED <<env, pending, turn, life, accepted>>

\* add_message: the message POST has answered; end_conversation then pops
\* the entry of its call id
MessagePosted(s) ==
    /\ tasks[s].pc = "post"
    /\ \E ok \in BOOLEAN :
          tickets' = IF ok THEN [tickets EXCEPT ![tasks[s].conv].posters = @ \cup {tasks[s].call}]
                     ELSE tickets
    /\ call_map' = IF Head(tasks[s].prog).fn = "end_conversation"
                   THEN registry_pop(call_map, tasks[s].call) ELSE call_map
    /\ tasks' = [tasks EXCEPT ![s] = RunToAwait(Returned(@), call_map', env.chatwoot)]
    /\ UNCHANGED <<env, next_conv, pending, turn, life, accepted>>

\* the chat completion has answered
ReplyGenerated(s) ==
    /\ tasks[s].pc = "reply"
    /\ tasks' = [tasks EXCEPT ![s] = RunToAwait(Returned(@), call_map, env.chatwoot)]
    /\ UNCHANGED <<env, call_map, next_conv, pending, turn, life, tickets, accepted>>

NextConcurrent ==
    \/ \E s \in Slots : Accept(s)
    \/ \E s \in Slots : ContactPosted(s)
    \/ \E s \in Slots : ContactSearched(s)
    \/ \E s \in Slots : ConversationPosted(s)
    \/ \E s \in Slots : MessagePosted(s)
    \/ \E s \in Slots : ReplyGenerated(s)

SpecConcurrent == InitConcurrent /\ [][NextConcurrent]_vars

(***************************************************************************)
(* Vocabulary of the properties                                            *)
(***************************************************************************)
\* the last handled event was an utterance turn
IsTurn == turn.event = "user_message"
IsStart == turn.event = "call_started"

\* the normalised utterance of the turn
Utterance == strip(lower(turn.transcript))

\* responses of the three terminal / transfer branches on the two transports
StopResponses == {Resp("hangup", GoodbyeText), Resp("end_call", "user_ended")}
EscalateResponses == {Resp("transfer", TransferText), Resp("handoff", "user_requested_human")}

\* the utterance matches a Stop phrase / contains an escalation phrase
MatchesStop ==
    \/ \E phrase \in {"that's all", "thats all", "nothing else", "that's it", "thats it",
                      "goodbye"} : Contains(Utterance, phrase)
    \/ \E w \in {"no", "bye", "nope"} : SearchWord(w, Utterance)

MatchesEscalate ==
    \E p \in {"talk to agent", "talk to a human", "talk to human", "human", "real person",
              "customer support", "representative", "agent"} : Contains(Utterance, p)

\* the integration calls of the last event, by kind
LogCalls == {i \in DOMAIN turn.calls : turn.calls[i].fn = "add_message_for_call"}
EndCalls == {i \in DOMAIN turn.calls : turn.calls[i].fn = "end_conversation"}
CreateCalls == {i \in DOMAIN turn.calls : turn.calls[i].fn = "create_conversation"}
SentCalls == {i \in DOMAIN turn.calls : turn.calls[i].sent}

\* the conversation id the last call-start event obtained, 0 for none
TurnCreated == IF CreateCalls = {} THEN 0 ELSE turn.calls[1].conv

(***************************************************************************)
(* C1: on both transports every non-empty utterance that matches a Stop    *)
(* phrase is answered by the Stop branch (hang-up / end_call), also when   *)
(* it contains an escalation or an order phrase.                           *)
(***************************************************************************)
C1_StopHasPrecedence ==
    (IsTurn /\ turn.transcript # "" /\ MatchesStop) => turn.response \in StopResponses

(***************************************************************************)
(* C2: a turn the handler classifies Stop, on a call with an established   *)
(* ticket reference, is answered with the hang-up response and makes       *)
(* exactly one end_conversation call, with reason "user ended", which      *)
(* sends the close message to that ticket.                                 *)
(***************************************************************************)
\* the handler's own classification of the turn as Stop
ClassifiedStop ==
    /\ IsTurn /\ turn.transcript # "" /\ MatchesStop
    /\ turn.endpoint = "/voice/transcribe" => ~MatchesEscalate

C2_StopClosesOnce ==
    (ClassifiedStop /\ turn.before # 0) =>
        /\ turn.response \in StopResponses
        /\ Cardinality(EndCalls) = 1
        /\ \A i \in EndCalls :
              /\ turn.calls[i].reason = "user ended"
              /\ turn.calls[i].conv = turn.before
              /\ turn.calls[i].sent
              /\ turn.calls[i].content = "Call ended: user ended"

C2_Witness ==
    /\ ClassifiedStop /\ turn.before # 0
    /\ turn.endpoint = "/voice/transcribe"
    /\ turn.response = Resp("hangup", GoodbyeText)
    /\ EndCalls # {}

(***************************************************************************)
(* C3 (as stated): after a call-end event, after a turn answered by the    *)
(* Stop branch and after a turn answered by the Escalate branch the call   *)
(* id has no registry entry.                                               *)
(***************************************************************************)
C3_TerminalIntentRemoves ==
    (/\ turn.call # NoCall
     /\ \/ turn.event = "call_ended"
        \/ IsTurn /\ turn.response \in StopResponses \cup EscalateResponses)
    => call_map[turn.call] = 0

(***************************************************************************)
(* C3 (amended): after a call-end event and after a turn answered by the   *)
(* Stop branch the call id has no registry entry; a turn answered by the   *)
(* Escalate branch leaves the entry of the call as it was.                 *)
(***************************************************************************)
C3_StopRemovesEscalateKeeps ==
    turn.call # NoCall =>
        /\ (turn.event = "call_ended" \/ (IsTurn /\ turn.response \in StopResponses))
              => call_map[turn.call] = 0
        /\ (IsTurn /\ turn.response \in EscalateResponses)
              => call_map[turn.call] = turn.before

C3_Witness ==
    /\ IsTurn /\ turn.endpoint = "/vapi/events" /\ turn.call # NoCall
    /\ turn.response \in StopResponses
    /\ turn.before # 0
    /\ call_map[turn.call] = 0

(***************************************************************************)
(* C4: once a call-end event has been handled for a call id the registry   *)
(* has no entry for it until a call-start event for that id, and after     *)
(* that later call-start the entry is exactly the conversation that start  *)
(* created (absent when it created none).                                  *)
(***************************************************************************)
C4_EndedThenFresh ==
    /\ \A c \in CallIds : life[c] = "ended" => call_map[c] = 0
    /\ (IsStart /\ turn.call # NoCall /\ turn.was = "ended")
          => /\ turn.before = 0
             /\ call_map[turn.call] = TurnCreated
             /\ TurnCreated # 0 => TurnCreated = next_conv - 1

C4_Witness ==
    /\ IsStart /\ turn.call # NoCall /\ turn.was = "ended"
    /\ TurnCreated >= 2
    /\ call_map[turn.call] = TurnCreated

(***************************************************************************)
(* C5: a call-start event for a call id replaces the registry entry of     *)
(* that id: afterwards the entry is the conversation this start created,   *)
(* or absent when its ticket creation failed; an earlier ticket reference  *)
(* is never retained.                                                      *)
(***************************************************************************)
C5_StartReplaces ==
    (IsStart /\ turn.call # NoCall /\ CreateCalls # {}) => call_map[turn.call] = TurnCreated

(***************************************************************************)
(* C6: when the ticket creation of a call-start fails, the call has no     *)
(* ticket reference, and until the next call-start for that id no event    *)
(* of the call sends a log or close request to the backend or attempts     *)
(* another creation.                                                       *)
(***************************************************************************)
C6_FailedCreationSkipsLogging ==
    \A c \in CallIds :
        life[c] = "create_failed" =>
            /\ call_map[c] = 0
            /\ turn.call = c =>
                  /\ \A i \in SentCalls : turn.calls[i].fn = "create_conversation"
                  /\ ~IsStart => CreateCalls = {}

(***************************************************************************)
(* C7: the response of a turn does not depend on ticket logging: handling  *)
(* the same request with the same speech-to-text, order-lookup and reply   *)
(* results returns the same response when the call has a ticket and every  *)
(* ticketing call succeeds, when it has one and every ticketing call       *)
(* fails, and when the call has no ticket reference.                       *)
(***************************************************************************)
AllFail == [n \in 1..MaxPosts |-> FALSE]

\* the ticketing situations compared: registry entry of the call, outcomes
TicketCases == {<<1, AllOk>>, <<1, AllFail>>, <<0, AllOk>>}

\* the response of the last turn, had it been handled in ticketing situation tc
Replayed(tc) ==
    LET ctx == [map |-> [c \in CallIds |-> IF c = turn.call THEN tc[1] ELSE call_map[c]],
                calls |-> <<>>]
        e == [env EXCEPT !.chatwoot = TRUE]
    IN  IF turn.endpoint = "/voice/transcribe"
        THEN transcribe(ctx, Form(turn.call, turn.input.text, turn.input.recording), e,
                        turn.input.rec, turn.input.shop, turn.input.llm, tc[2]).response
        ELSE vapi_events(ctx, Body(TRUE, "user_message", turn.call, "", turn.input.text), e,
                         Cw("none", FALSE), next_conv, turn.input.shop, turn.input.llm,
                         tc[2]).response

C7_ResponseIndependentOfLogging ==
    IsTurn => \A tc \in TicketCases : Replayed(tc) = turn.response

C7_Witness ==
    /\ IsTurn /\ turn.call # NoCall /\ turn.before # 0
    /\ turn.response.kind = "play_gather"
    /\ \E i \in SentCalls : ~turn.calls[i].ok
    /\ \E i \in SentCalls : turn.calls[i].ok

(***************************************************************************)
(* C8: on both transports a turn whose utterance text is empty is silent:  *)
(* no spoken text, no log entries, no order lookup and no reply            *)
(* generation; when the call has a ticket reference the close operation    *)
(* is invoked with reason "silence".                                       *)
(***************************************************************************)
C8_EmptyUtteranceIsSilent ==
    (IsTurn /\ turn.transcript = "") =>
        /\ turn.response.text = ""
        /\ LogCalls = {}
        /\ turn.lookups = 0 /\ turn.replies = 0
        /\ turn.before # 0 =>
              \E i \in EndCalls : turn.calls[i].reason = "silence" /\ turn.calls[i].sent

(***************************************************************************)
(* C9: every non-empty utterance that contains an escalation phrase as a   *)
(* substring and matches no Stop phrase is answered with the transfer      *)
(* response, and for a turn that carries a call id the Escalate branch     *)
(* records exactly two log entries after the caller's utterance: the       *)
(* incoming escalation request, then the outgoing transfer notice.         *)
(***************************************************************************)
C9_EscalateTransfers ==
    (IsTurn /\ turn.transcript # "" /\ MatchesEscalate /\ ~MatchesStop) =>
        /\ turn.response \in EscalateResponses
        /\ turn.call # NoCall =>
              /\ Len(turn.calls) = 3
              /\ LogCalls = {1, 2, 3}
              /\ turn.calls[1].content = "User: " \o turn.transcript
              /\ turn.calls[2].content = "User requested escalation to human agent"
              /\ turn.calls[2].message_type = "incoming"
              /\ turn.calls[3].content = "Agent: Escalation requested; transferring to human agent"
              /\ turn.calls[3].message_type = "outgoing"

C9_Witness ==
    /\ IsTurn /\ turn.endpoint = "/vapi/events" /\ turn.call # NoCall
    /\ turn.transcript = "I know, that is inhumane"
    /\ turn.response = Resp("handoff", "user_requested_human")
    /\ Len(turn.calls) = 3 /\ SentCalls = {1, 2, 3}

(***************************************************************************)
(* C10: within one turn every incoming log entry is requested before       *)
(* every outgoing log entry, and a close request comes after all log       *)
(* entries of the turn.                                                    *)
(***************************************************************************)
C10_IncomingBeforeOutgoingBeforeClose ==
    IsTurn =>
        /\ \A i, j \in LogCalls :
              (turn.calls[i].message_type = "incoming" /\ turn.calls[j].message_type = "outgoing")
                  => i < j
        /\ \A i \in LogCalls, j \in EndCalls : i < j
        /\ \A i \in DOMAIN turn.calls : turn.calls[i].message_type \in {"incoming", "outgoing", ""}

C10_Witness ==
    /\ IsTurn /\ turn.endpoint = "/voice/transcribe" /\ turn.before # 0
    /\ Len(turn.calls) = 3
    /\ turn.calls[1].message_type = "incoming"
    /\ turn.calls[2].message_type = "outgoing"
    /\ turn.calls[3].fn = "end_conversation"

(***************************************************************************)
(* Vocabulary of the order and reply claims                                *)
(***************************************************************************)
\* the six order-intent phrases of the classifier
OrderIntentPhrases ==
    {"order status", "where is my order", "where's my order", "track my order",
     "order number", "order status for"}

\* the lower-cased utterance contains an order-intent phrase
MatchesOrderPhrase == \E p \in OrderIntentPhrases : Contains(lower(turn.transcript), p)

\* a turn with a non-empty utterance that matches neither Stop nor Escalate
IsPlainTurn == IsTurn /\ turn.transcript # "" /\ ~MatchesStop /\ ~MatchesEscalate

\* the utterance has no digit, hence no order identifier
NoDigits == \A i \in 1..Len(turn.transcript) : ~IsDigit(At(turn.transcript, i))

\* the response keeps the call going and speaks its text
Continues == turn.response.kind \in {"play_gather", "assistant_response"}

\* the turn requested a log entry with this content and direction
Logged(content, message_type) ==
    \E i \in LogCalls : /\ turn.calls[i].content = content
                        /\ turn.calls[i].message_type = message_type

(***************************************************************************)
(* C11: a turn whose utterance matches an order-intent phrase and carries  *)
(* no order identifier (such as "order status") is answered with the ask-  *)
(* for-your-order-number prompt, continues the call, logs that the         *)
(* customer was asked for the order number and sends no lookup request.    *)
(***************************************************************************)
C11_NoIdentifierAsksForNumber ==
    (IsPlainTurn /\ MatchesOrderPhrase /\ NoDigits) =>
        /\ turn.response.text = AskOrderNumber
        /\ Continues
        /\ turn.lookups = 0
        /\ turn.call # NoCall => Logged("Agent: Asked customer for order number", "outgoing")

\* the handler takes the order branch: one of its order phrases occurs
IsOrderTurn == IsPlainTurn /\ \E p \in order_phrases : Contains(lower(turn.transcript), p)

\* the order id the turn extracted, "" for none
TurnOrderId == ExtractOrderId(turn.transcript)

\* the answers of the shop to the requests of the turn give no record: the
\* shop is not configured, the lookup by id answers without an order, or no
\* request that is made finds one
NoRecord ==
    \/ ~env.shopify
    \/ /\ isdigit(TurnOrderId)
       /\ \/ turn.input.shop.r[1] = "miss"
          \/ /\ turn.input.shop.r[1] = "error"
             /\ turn.input.shop.r[2] # "hit" /\ turn.input.shop.r[3] # "hit"
    \/ ~isdigit(TurnOrderId) /\ turn.input.shop.r[2] # "hit"

(***************************************************************************)
(* C12: on an order turn with an extracted order id whose lookup yields no *)
(* record, the reply is the could-not-find-that-order message, the call    *)
(* continues, the turn logs the outgoing entry "Order lookup attempted for *)
(* <id>, not found" and does not ask for an open-ended reply.              *)
(***************************************************************************)
C12_FailedLookupIsNotFound ==
    (IsOrderTurn /\ TurnOrderId # "" /\ NoRecord) =>
        /\ turn.response.text = OrderNotFound
        /\ Continues
        /\ turn.replies = 0
        /\ turn.call # NoCall =>
              Logged("Agent: Order lookup attempted for " \o TurnOrderId \o ", not found",
                     "outgoing")

C12_Witness ==
    /\ IsOrderTurn /\ TurnOrderId = "4521" /\ NoRecord
    /\ turn.input.shop.r[1] = "error" /\ turn.lookups = 3
    /\ turn.before # 0
    /\ turn.response.text = OrderNotFound

\* the record the lookup of the turn returns when it finds the order
TurnRecord == _extract_fields(turn.input.shop.order)

(***************************************************************************)
(* C13: on an order turn whose lookup finds the order, the call continues  *)
(* and the spoken reply contains the order number, the payment status,    *)
(* the fulfillment status and every tracking number that the returned      *)
(* record carries; the turn logs an outgoing lookup-result entry naming    *)
(* the searched id and the payment and fulfillment status.                 *)
(***************************************************************************)
C13_FoundOrderIsReported ==
    (IsOrderTurn /\ TurnOrderId # "" /\ ~NoRecord) =>
        /\ Continues
        /\ TurnRecord.order_number # "" =>
              Contains(turn.response.text, TurnRecord.order_number)
        /\ TurnRecord.financial_status # "" =>
              Contains(turn.response.text, TurnRecord.financial_status)
        /\ TurnRecord.fulfillment_status # "" =>
              Contains(turn.response.text, TurnRecord.fulfillment_status)
        /\ \A f \in DOMAIN TurnRecord.fulfillments :
              \A k \in DOMAIN TurnRecord.fulfillments[f] :
                 Contains(turn.response.text, TurnRecord.fulfillments[f][k])
        /\ turn.call # NoCall =>
              \E i \in LogCalls :
                 /\ turn.calls[i].message_type = "outgoing"
                 /\ Contains(turn.calls[i].content, "Order lookup result for " \o TurnOrderId)
                 /\ TurnRecord.financial_status # "" =>
                       Contains(turn.calls[i].content, "status=" \o TurnRecord.financial_status)
                 /\ TurnRecord.fulfillment_status # "" =>
                       Contains(turn.calls[i].content,
                                "fulfillment=" \o TurnRecord.fulfillment_status)

C13_Witness ==
    /\ IsOrderTurn /\ TurnOrderId = "4521" /\ ~NoRecord
    /\ turn.input.shop.order = Order4521
    /\ turn.lookups = 2
    /\ turn.before # 0
    /\ Contains(turn.response.text, "1Z999")
    /\ Logged("Agent: Order lookup result for 4521: status=paid, fulfillment=fulfilled",
              "outgoing")

\* the handler routes the turn to open-ended reply generation
IsOtherTurn == IsPlainTurn /\ ~\E p \in order_phrases : Contains(lower(turn.transcript), p)

\* the reply the chat completion of the turn yields, "" when it is not
\* configured, fails or answers with blanks
TurnReply == IF env.openai /\ turn.input.llm.ok THEN strip(turn.input.llm.content) ELSE ""

HandledByOrderBranch ==
    \/ turn.response.text \in {AskOrderNumber, OrderNotFound}
    \/ MatchAt(turn.response.text, "I found order ", 1)

(***************************************************************************)
(* C15: a turn whose utterance matches neither Stop nor Escalate is        *)
(* handled by the order branch exactly when its lower-cased text contains  *)
(* one of the six order-intent phrases; an utterance containing "order     *)
(* number" is not passed to open-ended reply generation.                   *)
(***************************************************************************)
C15_SixOrderPhrases ==
    IsPlainTurn =>
        /\ MatchesOrderPhrase <=> HandledByOrderBranch
        /\ MatchesOrderPhrase => turn.replies = 0

\* the turn transcribes a recording
UsesRecording == turn.input.text = "" /\ turn.input.recording

\* no log entry is requested twice in the turn
NoLogRepeated ==
    \A i, j \in LogCalls : turn.calls[i].content = turn.calls[j].content => i = j

(***************************************************************************)
(* C16 (as stated): every collaborator operation of a turn makes a single  *)
(* outbound attempt: a recording whose download fails is not requested     *)
(* again, an order lookup sends one request, reply generation sends one    *)
(* request and no log entry is requested twice.                            *)
(***************************************************************************)
C16_SingleAttempt ==
    IsTurn =>
        /\ (UsesRecording /\ turn.input.rec.download # "ok") => turn.stt <= 1
        /\ turn.stt <= 2
        /\ turn.lookups <= 1
        /\ turn.replies <= 1
        /\ NoLogRepeated

(***************************************************************************)
(* C16 (amended): no outbound request is sent twice.  A recording is       *)
(* downloaded from its URL and, when that answers with a failure status,   *)
(* once more from the URL with ".wav" appended, and it is posted for       *)
(* transcription once when a download succeeded; an order lookup sends     *)
(* the lookup by id (numeric ids), then at most one search by name and     *)
(* one search by order_number (numeric ids); reply generation sends at     *)
(* most one request; no log entry is requested twice.                      *)
(***************************************************************************)
C16_NoRequestRepeated ==
    IsTurn =>
        /\ turn.stt = IF ~(UsesRecording /\ env.openai /\ turn.endpoint = "/voice/transcribe")
                      THEN 0
                      ELSE IF turn.input.rec.download = "exception" THEN 1
                      ELSE IF turn.input.rec.download = "missing" THEN 2
                      ELSE IF turn.input.rec.download = "ok" THEN 2
                      ELSE 3
        /\ turn.lookups = IF ~(IsOrderTurn /\ TurnOrderId # "" /\ env.shopify) THEN 0
                          ELSE IF ~isdigit(TurnOrderId) THEN 1
                          ELSE IF turn.input.shop.r[1] \in {"hit", "miss"} THEN 1
                          ELSE IF turn.input.shop.r[2] = "hit" THEN 2
                          ELSE 3
        /\ turn.replies <= 1
        /\ NoLogRepeated

C16_Witness ==
    /\ IsTurn /\ UsesRecording
    /\ turn.input.rec.download = "alt_ok" /\ turn.stt = 3
    /\ turn.transcript = "Goodbye"

(***************************************************************************)
(* C17: when handlers interleave at their awaits, a step that changes the  *)
(* registry entry of a call id, or the messages of a ticket created for    *)
(* that call id, is a step of a handler of an event of that call id: the   *)
(* handler of another call id never creates, changes or removes the entry  *)
(* and never posts to the ticket.                                          *)
(***************************************************************************)
C17_OtherCallsUntouched ==
    [][\A a \in CallIds :
          (\/ call_map'[a] # call_map[a]
           \/ \E k \in DOMAIN tickets : tickets[k].owner = a /\ tickets'[k] # tickets[k])
          => /\ \E s \in Slots : tasks'[s] # tasks[s]
             /\ \A s \in Slots : tasks'[s] # tasks[s] => tasks[s].call = a]_vars

C17_Witness ==
    /\ tasks[1].call = "CA1" /\ tasks[1].pc = "post"
    /\ Head(tasks[1].prog).fn = "end_conversation"
    /\ tasks[2].call = "CA2" /\ tasks[2].pc = "post"
    /\ call_map["CA2"] # 0

\* the responses the routes build
ResponseKinds ==
    {"record", "gone", "transfer", "hangup", "play_gather", "empty", "assistant_response",
     "end_call", "handoff", "status"}

\* speech-to-text of the recording of the turn fails: no API key, no audio
\* downloaded, or the transcription request fails
RecordingFails ==
    \/ ~env.openai
    \/ turn.input.rec.download \notin {"ok", "alt_ok"}
    \/ ~turn.input.rec.stt_ok

(***************************************************************************)
(* C18: every handled event (call start, utterance, call end) ends with a  *)
(* response of its route, whatever the collaborators answer: a failed      *)
(* transcription gives the empty transcript, a failed order lookup the     *)
(* not-found reply and a failed reply generation the empty reply.          *)
(***************************************************************************)
C18_NoFatalError ==
    turn.event \in {"call_started", "user_message", "call_ended"} =>
        /\ turn.response.kind \in ResponseKinds
        /\ (IsTurn /\ turn.endpoint = "/voice/transcribe" /\ UsesRecording /\ RecordingFails)
              => turn.transcript = "" /\ turn.response = Resp("empty", "")
        /\ (IsOrderTurn /\ TurnOrderId # "" /\ NoRecord) => turn.response.text = OrderNotFound
        /\ (IsOtherTurn /\ TurnReply = "") => turn.response.text = ""

C18_Witness ==
    /\ IsTurn /\ turn.endpoint = "/voice/transcribe" /\ UsesRecording
    /\ env.openai /\ turn.input.rec.download = "exception" /\ turn.stt = 1
    /\ turn.before # 0
    /\ \E i \in SentCalls : ~turn.calls[i].ok
    /\ turn.response = Resp("empty", "")

(***************************************************************************)
(* C19: ticket creation is attempted once per call, at the first event     *)
(* handled for it: at the call-start event, or at the first utterance      *)
(* turn of a call id for which no call-start event was handled; an         *)
(* utterance or call-end event of a call that has started attempts none.   *)
(***************************************************************************)
C19_CreationAtFirstEvent ==
    (turn.call # NoCall /\ env.chatwoot /\ ~env.disable_twilio) =>
        /\ IsStart => Cardinality(CreateCalls) = 1
        /\ (IsTurn /\ turn.transcript # "" /\ turn.was = "new") => Cardinality(CreateCalls) = 1
        /\ (turn.event \in {"user_message", "call_ended"} /\ turn.was # "new") => CreateCalls = {}

(***************************************************************************)
(* C20: handling an event whose payload cannot be parsed makes no          *)
(* ticketing call and leaves the registry as it was; /vapi/events answers  *)
(* the "received" acknowledgement and /voice/inbound (when the route is    *)
(* not disabled) the greeting of an event without fields.                  *)
(***************************************************************************)
C20_UnparsableIsIgnored ==
    [][pending.event = "unparsable" =>
          /\ call_map' = call_map
          /\ turn'.calls = <<>>
          /\ pending.endpoint = "/vapi/events" => turn'.response = Resp("status", "received")
          /\ (pending.endpoint = "/voice/inbound" /\ ~env.disable_twilio)
                => turn'.response = Resp("record", Greeting)]_vars

\* the calls of a handler that posted a message to a conversation
Posts(calls) ==
    {i \in DOMAIN calls : calls[i].fn \in {"add_message_for_call", "end_conversation"}
                             /\ calls[i].sent}

\* the calls in which end_conversation found a conversation to close
Closings(calls) ==
    {i \in DOMAIN calls : calls[i].fn = "end_conversation" /\ calls[i].conv # 0}

\* the conversations a handler registered
Registered(calls) ==
    {calls[i].conv : i \in {j \in DOMAIN calls : calls[j].fn = "create_conversation"
                                                    /\ calls[j].conv # 0}}

(***************************************************************************)
(* C21: events being handled one at a time, the handler of an event of a   *)
(* call id closes at most one conversation, the one registered for the     *)
(* call id, and then the call id has no entry, whether the end-of-call     *)
(* message was delivered or not, and the handler posts nothing more; the   *)
(* handler of an utterance, silence or call-end event of a call id without *)
(* entry posts nothing and leaves it without entry; every message goes to  *)
(* the conversation registered for the call id when the handler started or *)
(* to one the handler registered; and a conversation that gets registered  *)
(* is a new one of the backend, never one that was registered before.      *)
(* Hence a closed conversation receives no further message.                *)
(***************************************************************************)
C21_ClosedStaysSilent ==
    [][(pending.call # NoCall /\ turn' # NoTurn) =>
          /\ Cardinality(Closings(turn'.calls)) <= 1
          /\ \A i \in Closings(turn'.calls) :
                /\ turn'.calls[i].conv = call_map[pending.call]
                /\ call_map'[pending.call] = 0
                /\ \A j \in Posts(turn'.calls) : j <= i
          /\ (call_map[pending.call] = 0 /\ pending.event # "call_started")
                => /\ Posts(turn'.calls) = {}
                   /\ call_map'[pending.call] = 0
          /\ \A i \in Posts(turn'.calls) :
                turn'.calls[i].conv \in ({call_map[pending.call]} \cup Registered(turn'.calls))
                                         \ {0}
          /\ \A k \in Registered(turn'.calls) :
                /\ k = next_conv /\ next_conv' > next_conv
                /\ \A a \in CallIds : call_map[a] < k]_vars

\* a call-end event closed the conversation of its call although the
\* end-of-call message was refused
C21_Witness ==
    /\ turn.event = "call_ended" /\ turn.call # NoCall /\ turn.before # 0
    /\ \E i \in EndCalls : /\ turn.calls[i].conv = turn.before
                            /\ turn.calls[i].sent /\ ~turn.calls[i].ok
    /\ call_map[turn.call] = 0

\* slot s resumes end_conversation after its end-of-call POST and the
\* entry of its call id changes
ClosingRemoves(s) ==
    /\ tasks[s].pc = "post" /\ Head(tasks[s].prog).fn = "end_conversation"
    /\ tasks'[s] # tasks[s]
    /\ call_map'[tasks[s].call] # call_map[tasks[s].call]

(***************************************************************************)
(* C22: when handlers interleave at their awaits, the registry entry that  *)
(* end_conversation removes on resuming is the entry of the conversation   *)
(* it sent the end-of-call message to: an entry registered for the same    *)
(* call id by a call-start that completed while end_conversation was       *)
(* suspended is not removed.                                               *)
(***************************************************************************)
C22_RemovesWhatItClosed ==
    [][\A s \in Slots :
          ClosingRemoves(s) => call_map[tasks[s].call] = tasks[s].conv]_vars

====
